---- MODULE Spec2Model ----
(***************************************************************************)
(* The Python <-> GRT dictionary adapter (python_grtdict.cpp): the grt.Dict *)
(* mapping object, its handlers, and the grt.DictIterator object.           *)
(***************************************************************************)
EXTENDS Integers, Sequences, FiniteSets, TLC

(***************************************************************************)
(* Bounds of the model.                                                     *)
(***************************************************************************)
NumKeys == 2
MaxHandles == 3
NumAdapters == 2
MaxDeletes == 2

KeyNames == <<"a", "b", "c", "d">>
Keys == {KeyNames[i] : i \in 1..NumKeys}

(***************************************************************************)
(* Host (Python) values.  PyOther has no runtime representation; the        *)
(* conversion of PyBad raises.  NULL is the C null pointer.                 *)
(***************************************************************************)
NULL == [py |-> "NULL"]
PyNone == [py |-> "None"]
PyInt == [py |-> "int", n |-> 1]
PyFloat == [py |-> "float"]
PyStr == [py |-> "str", s |-> "s"]
PyDict == [py |-> "dict", items |-> <<>>]
PyObj == [py |-> "grt.Object", class |-> "A"]
PyOther == [py |-> "object"]
PyBad == [py |-> "broken"]

HostStorable == {PyInt, PyFloat, PyStr, PyDict, PyObj}
HostValues == HostStorable \cup {PyNone, PyOther, PyBad}

PyTrue == [py |-> "bool", b |-> TRUE]
PyFalse == [py |-> "bool", b |-> FALSE]
PyList(s) == [py |-> "list", elems |-> s]
PyTuple(k, v) == [py |-> "tuple", first |-> k, second |-> v]

\* the int results of the handlers that return a status
RcOk == [py |-> "rc", n |-> 0]
RcFail == [py |-> "rc", n |-> -1]
\* what a handler "returns" when a C++ exception leaves it
Unwound == [py |-> "unwound"]

\* a key argument that is not a Python str
NonStrKey == "<non-str>"
KeyArgs == Keys \cup {NonStrKey}

(***************************************************************************)
(* Runtime (GRT) values.  Invalid is the empty grt::ValueRef().             *)
(***************************************************************************)
Invalid == [type |-> "invalid"]
GrtInt == [type |-> "IntegerType", i |-> 1]
GrtDouble == [type |-> "DoubleType"]
GrtString == [type |-> "StringType", s |-> "s"]
GrtDict == [type |-> "DictType", items |-> <<>>]
GrtObject == [type |-> "ObjectType", class |-> "A"]

TypeNames == {"int", "real", "string", "dict", "object"}
BadTypeName == "bogus"
MetaClasses == {"A", "B"}
BadClassName == "Nope"

\* grt::str_to_type
str_to_type(name) ==
  CASE name = "int" -> "IntegerType"
    [] name = "real" -> "DoubleType"
    [] name = "string" -> "StringType"
    [] name = "dict" -> "DictType"
    [] name = "object" -> "ObjectType"
    [] OTHER -> "UnknownType"

\* PythonContext::from_pyobject: does the conversion raise?
from_pyobject_throws(v) == v = PyBad

\* PythonContext::from_pyobject: the runtime value, Invalid when there is none
from_pyobject(v) ==
  CASE v = PyInt -> GrtInt
    [] v = PyFloat -> GrtDouble
    [] v = PyStr -> GrtString
    [] v = PyDict -> GrtDict
    [] v = PyObj -> GrtObject
    [] OTHER -> Invalid

\* PythonContext::from_grt
from_grt(r) ==
  CASE r = GrtInt -> PyInt
    [] r = GrtDouble -> PyFloat
    [] r = GrtString -> PyStr
    [] r = GrtDict -> PyDict
    [] r = GrtObject -> PyObj
    [] OTHER -> PyNone

(***************************************************************************)
(* The runtime dictionary (grt::DictRef): an ordered mapping, a sequence of *)
(* entries [k, v] with unique keys, with a content type and class.          *)
(***************************************************************************)
NewDict(ctype, cclass) == [ctype |-> ctype, cclass |-> cclass, items |-> <<>>]

NoDict == [ctype |-> "none", cclass |-> "", items |-> <<>>]

KeysOf(d) == {d.items[i].k : i \in 1..Len(d.items)}

IndexOf(d, k) == CHOOSE i \in 1..Len(d.items) : d.items[i].k = k

\* DictRef::count
DictCount(d) == Len(d.items)

\* DictRef::has_key
DictHasKey(d, k) == \E i \in 1..Len(d.items) : d.items[i].k = k

\* DictRef::get raises bad_item for a key that is absent
DictGetThrows(d, k) == ~DictHasKey(d, k)

\* DictRef::get
DictGet(d, k) == d.items[IndexOf(d, k)].v

\* DictRef::set raises bad_item for a value the content type or class rejects
DictSetThrows(d, v) ==
  /\ v # Invalid
  /\ d.ctype # "AnyType"
  /\ \/ v.type # d.ctype
     \/ d.ctype = "ObjectType" /\ d.cclass # "" /\ v.class # d.cclass

\* DictRef::set: an existing key keeps its place, a new key goes last
DictSet(d, k, v) ==
  IF DictHasKey(d, k)
    THEN [d EXCEPT !.items[IndexOf(d, k)].v = v]
    ELSE [d EXCEPT !.items = Append(@, [k |-> k, v |-> v])]

\* DictRef::remove: nothing happens when the key is absent
DictRemove(d, k) ==
  [d EXCEPT !.items = SelectSeq(@, LAMBDA e : e.k # k)]

(***************************************************************************)
(* The handlers of the adapter as functions of the backing dictionary d,    *)
(* the arguments and whether PythonContext::get_and_check() finds a         *)
(* session (ctx).  An outcome is the dictionary afterwards, the value       *)
(* returned, the Python error left pending and the C++ exception that       *)
(* left the handler, if any.                                                *)
(***************************************************************************)
Outcome(d, ret, err, esc) == [d |-> d, ret |-> ret, err |-> err, esc |-> esc]

NoErr == "none"
CtxErr == "no context"

\* dict_length counting only the entries that hold a value
dict_length_valued(d) == Len(SelectSeq(d.items, LAMBDA e : e.v # Invalid))

\* dict_length
dict_length(d) == DictCount(d)

\* dict_subscript returning None for a key that is absent
dict_subscript_lenient(d, key, ctx) ==
  IF key = NonStrKey THEN Outcome(d, NULL, "KeyError", NoErr)
  ELSE IF ~ctx THEN Outcome(d, NULL, CtxErr, NoErr)
  ELSE IF DictGetThrows(d, key) THEN Outcome(d, PyNone, NoErr, NoErr)
  ELSE Outcome(d, from_grt(DictGet(d, key)), NoErr, NoErr)

\* dict_subscript
dict_subscript(d, key, ctx) ==
  IF key = NonStrKey THEN Outcome(d, NULL, "KeyError", NoErr)
  ELSE IF ~ctx THEN Outcome(d, NULL, CtxErr, NoErr)
  ELSE IF DictGetThrows(d, key) THEN Outcome(d, NULL, "bad_item", NoErr)
  ELSE Outcome(d, from_grt(DictGet(d, key)), NoErr, NoErr)

\* dict_ass_subscript storing the value without converting it
dict_ass_subscript_unconverted(d, key, value, ctx) ==
  IF key = NonStrKey THEN Outcome(d, RcFail, "KeyError", NoErr)
  ELSE IF ~ctx THEN Outcome(d, RcFail, CtxErr, NoErr)
  ELSE IF value = NULL THEN Outcome(DictRemove(d, key), RcOk, NoErr, NoErr)
  ELSE Outcome(DictSet(d, key, Invalid), RcOk, NoErr, NoErr)

\* dict_ass_subscript with a catch clause that reports nothing
dict_ass_subscript_swallow(d, key, value, ctx) ==
  IF key = NonStrKey THEN Outcome(d, RcFail, "KeyError", NoErr)
  ELSE IF ~ctx THEN Outcome(d, RcFail, CtxErr, NoErr)
  ELSE IF value = NULL THEN Outcome(DictRemove(d, key), RcOk, NoErr, NoErr)
  ELSE IF value = PyNone THEN Outcome(DictSet(d, key, Invalid), RcOk, NoErr, NoErr)
  ELSE IF from_pyobject_throws(value) THEN Outcome(d, RcFail, "std::exception", NoErr)
  ELSE IF from_pyobject(value) = Invalid THEN Outcome(d, RcFail, "ValueError", NoErr)
  ELSE IF DictSetThrows(d, from_pyobject(value)) THEN Outcome(d, RcOk, NoErr, NoErr)
  ELSE Outcome(DictSet(d, key, from_pyobject(value)), RcOk, NoErr, NoErr)

\* dict_ass_subscript raising KeyError when the key to delete is absent
dict_ass_subscript_strict(d, key, value, ctx) ==
  IF key = NonStrKey THEN Outcome(d, RcFail, "KeyError", NoErr)
  ELSE IF ~ctx THEN Outcome(d, RcFail, CtxErr, NoErr)
  ELSE IF value = NULL /\ ~DictHasKey(d, key) THEN Outcome(d, RcFail, "KeyError", NoErr)
  ELSE IF value = NULL THEN Outcome(DictRemove(d, key), RcOk, NoErr, NoErr)
  ELSE IF value = PyNone THEN Outcome(DictSet(d, key, Invalid), RcOk, NoErr, NoErr)
  ELSE IF from_pyobject_throws(value) THEN Outcome(d, RcFail, "std::exception", NoErr)
  ELSE IF from_pyobject(value) = Invalid THEN Outcome(d, RcFail, "ValueError", NoErr)
  ELSE IF DictSetThrows(d, from_pyobject(value)) THEN Outcome(d, RcFail, "bad_item", NoErr)
  ELSE Outcome(DictSet(d, key, from_pyobject(value)), RcOk, NoErr, NoErr)

\* dict_ass_subscript; value = NULL is a deletion
dict_ass_subscript(d, key, value, ctx) ==
  IF key = NonStrKey THEN Outcome(d, RcFail, "KeyError", NoErr)
  ELSE IF ~ctx THEN Outcome(d, RcFail, CtxErr, NoErr)
  ELSE IF value = NULL THEN Outcome(DictRemove(d, key), RcOk, NoErr, NoErr)
  ELSE IF value = PyNone THEN Outcome(DictSet(d, key, Invalid), RcOk, NoErr, NoErr)
  ELSE IF from_pyobject_throws(value) THEN Outcome(d, RcFail, "std::exception", NoErr)
  ELSE IF from_pyobject(value) = Invalid THEN Outcome(d, RcFail, "ValueError", NoErr)
  ELSE IF DictSetThrows(d, from_pyobject(value)) THEN Outcome(d, RcFail, "bad_item", NoErr)
  ELSE Outcome(DictSet(d, key, from_pyobject(value)), RcOk, NoErr, NoErr)

KeySeq(d) == [i \in 1..Len(d.items) |-> d.items[i].k]
ValueSeq(d) == [i \in 1..Len(d.items) |-> from_grt(d.items[i].v)]
ItemSeq(d) == [i \in 1..Len(d.items) |-> PyTuple(d.items[i].k, from_grt(d.items[i].v))]

\* dict_keys; args is TRUE when the caller passed an argument tuple
dict_keys(d, args) ==
  IF args THEN Outcome(d, NULL, "ValueError", NoErr)
  ELSE Outcome(d, PyList(KeySeq(d)), NoErr, NoErr)

\* dict_items
dict_items(d, args, ctx) ==
  IF args THEN Outcome(d, NULL, "ValueError", NoErr)
  ELSE IF ~ctx THEN Outcome(d, NULL, CtxErr, NoErr)
  ELSE Outcome(d, PyList(ItemSeq(d)), NoErr, NoErr)

\* dict_values leaving out the entries whose value is empty
dict_values_nonempty(d, args, ctx) ==
  IF args THEN Outcome(d, NULL, "ValueError", NoErr)
  ELSE IF ~ctx THEN Outcome(d, NULL, CtxErr, NoErr)
  ELSE Outcome(d, PyList(SelectSeq(ValueSeq(d), LAMBDA v : v # PyNone)), NoErr, NoErr)

\* dict_values
dict_values(d, args, ctx) ==
  IF args THEN Outcome(d, NULL, "ValueError", NoErr)
  ELSE IF ~ctx THEN Outcome(d, NULL, CtxErr, NoErr)
  ELSE Outcome(d, PyList(ValueSeq(d)), NoErr, NoErr)

\* dict_has_key; arg is "" for a null argument.  PyUnicode_AsUTF8 of an
\* object that is no str returns null and leaves a TypeError pending.
dict_has_key(d, arg) ==
  IF arg = "" THEN Outcome(d, NULL, "ValueError", NoErr)
  ELSE IF arg = NonStrKey THEN Outcome(d, PyFalse, "TypeError", NoErr)
  ELSE Outcome(d, IF DictHasKey(d, arg) THEN PyTrue ELSE PyFalse, NoErr, NoErr)

\* PythonContext::from_pyobject with the dictionary type hint, for a host dict
ToRuntimeDict(arg) ==
  [ctype |-> "AnyType", cclass |-> "",
   items |-> [i \in 1..Len(arg.items) |->
                [k |-> arg.items[i].k, v |-> from_pyobject(arg.items[i].v)]]]

\* grt::merge_contents(target, source, overwrite = true), entry by entry over
\* the source; esc names the exception of the first store that is rejected
RECURSIVE merge_contents(_, _)
merge_contents(d, src) ==
  IF src = <<>> THEN [d |-> d, esc |-> NoErr]
  ELSE IF DictSetThrows(d, Head(src).v) THEN [d |-> d, esc |-> "bad_item"]
  ELSE merge_contents(DictSet(d, Head(src).k, Head(src).v), Tail(src))

\* dict_update merging without overwriting: keys already present keep their value
dict_update_keep(d, arg, ctx) ==
  IF ~ctx THEN Outcome(d, NULL, CtxErr, NoErr)
  ELSE IF arg = NULL THEN Outcome(d, NULL, "ValueError", NoErr)
  ELSE IF from_pyobject_throws(arg) \/ arg.py \in {"int", "float", "str", "grt.Object", "args"}
    THEN Outcome(d, NULL, "invalid argument", NoErr)
  ELSE IF arg.py # "dict" THEN Outcome(d, NULL, "ValueError", NoErr)
  ELSE LET m == merge_contents(d, SelectSeq(ToRuntimeDict(arg).items,
                                            LAMBDA e : ~DictHasKey(d, e.k)))
       IN IF m.esc # NoErr THEN Outcome(m.d, Unwound, NoErr, m.esc)
          ELSE Outcome(m.d, PyNone, NoErr, NoErr)

\* dict_update
dict_update(d, arg, ctx) ==
  IF ~ctx THEN Outcome(d, NULL, CtxErr, NoErr)
  ELSE IF arg = NULL THEN Outcome(d, NULL, "ValueError", NoErr)
  ELSE IF from_pyobject_throws(arg) \/ arg.py \in {"int", "float", "str", "grt.Object", "args"}
    THEN Outcome(d, NULL, "invalid argument", NoErr)
  ELSE IF arg.py # "dict" THEN Outcome(d, NULL, "ValueError", NoErr)
  ELSE LET m == merge_contents(d, ToRuntimeDict(arg).items)
       IN IF m.esc # NoErr THEN Outcome(m.d, Unwound, NoErr, m.esc)
          ELSE Outcome(m.d, PyNone, NoErr, NoErr)

\* dict_get; def = NULL when no default was passed
dict_get(d, key, def, ctx) ==
  IF ~ctx THEN Outcome(d, NULL, CtxErr, NoErr)
  ELSE IF key = NonStrKey THEN Outcome(d, NULL, "TypeError", NoErr)
  ELSE IF DictHasKey(d, key) THEN Outcome(d, from_grt(DictGet(d, key)), NoErr, NoErr)
  ELSE IF def # NULL THEN Outcome(d, def, NoErr, NoErr)
  ELSE Outcome(d, PyNone, "KeyError", NoErr)

\* the store of dict_setdefault: the dictionary afterwards and the error the
\* catch clauses leave pending
setdefault_store(d, key, def) ==
  IF from_pyobject_throws(def) THEN [d |-> d, err |-> "std::exception"]
  ELSE IF DictSetThrows(d, from_pyobject(def)) THEN [d |-> d, err |-> "bad_item"]
  ELSE [d |-> DictSet(d, key, from_pyobject(def)), err |-> NoErr]

\* dict_setdefault without the has_key test: the default is always stored
dict_setdefault_overwrite(d, key, def, ctx) ==
  IF ~ctx THEN Outcome(d, NULL, CtxErr, NoErr)
  ELSE IF key = NonStrKey THEN Outcome(d, NULL, "TypeError", NoErr)
  ELSE LET st == setdefault_store(d, key, IF def = NULL THEN PyNone ELSE def)
       IN IF DictGetThrows(st.d, key) THEN Outcome(st.d, Unwound, st.err, "bad_item")
          ELSE Outcome(st.d, from_grt(DictGet(st.d, key)), st.err, NoErr)

\* dict_setdefault; def = NULL when no default was passed (Py_None is used)
dict_setdefault(d, key, def, ctx) ==
  IF ~ctx THEN Outcome(d, NULL, CtxErr, NoErr)
  ELSE IF key = NonStrKey THEN Outcome(d, NULL, "TypeError", NoErr)
  ELSE IF DictHasKey(d, key) THEN Outcome(d, from_grt(DictGet(d, key)), NoErr, NoErr)
  ELSE LET st == setdefault_store(d, key, IF def = NULL THEN PyNone ELSE def)
       IN IF DictGetThrows(st.d, key) THEN Outcome(st.d, Unwound, st.err, "bad_item")
          ELSE Outcome(st.d, from_grt(DictGet(st.d, key)), st.err, NoErr)

\* dict_printable: DictRef::toString lists the entries in order
dict_printable(d) == Outcome(d, [py |-> "repr", of |-> d.items], NoErr, NoErr)

(***************************************************************************)
(* The state.                                                               *)
(*  hp     the heap of grt::DictRef handles made by new: for each handle    *)
(*         whether it is allocated, how often delete was applied to it and  *)
(*         the runtime dictionary it refers to                              *)
(*  store  the runtime dictionaries, shared by the handles that refer to    *)
(*         them                                                             *)
(*  self   the adapters (PyGRTDictObject): the dict field (0 is the null    *)
(*         pointer) and where the object is in its life                     *)
(*  it     the iterator object (PyGRTDictIteratorObject)                    *)
(*  last   the call made last and how it ended                              *)
(*  crashed  the process was ended by undefined behaviour                   *)
(***************************************************************************)
VARIABLES hp, store, self, it, last, crashed

vars == <<hp, store, self, it, last, crashed>>

Handles == 1..MaxHandles
DictIds == 1..MaxHandles
Adapters == 1..NumAdapters

NoHandle == [st |-> "unalloc", dels |-> 0, ref |-> 0]

\* chg: the call changed the dictionary it was made on
Call(op, key, val, ret, err, esc, chg) ==
  [op |-> op, key |-> key, val |-> val, ret |-> ret, err |-> err, esc |-> esc,
   chg |-> chg]

\* the C++ delete of a DictRef pointer; deleting the null pointer does nothing
Delete(heap, h) ==
  IF h = 0 THEN heap
  ELSE [heap EXCEPT ![h].st = "deleted", ![h].dels = @ + 1]

\* delete applied to a pointer that was deleted before: undefined behaviour
DoubleDelete(heap, h) == h # 0 /\ heap[h].st = "deleted"

FreeHandles(heap) == {h \in Handles : heap[h].st = "unalloc"}
FreshHandle(heap) == CHOOSE h \in FreeHandles(heap) : \A g \in FreeHandles(heap) : h <= g
FreeDicts(st) == {d \in DictIds : st[d] = NoDict}
FreshDict(st) == CHOOSE d \in FreeDicts(st) : \A e \in FreeDicts(st) : d <= e

\* new grt::DictRef(...) referring to dictionary d
NewHandle(heap, d) ==
  [heap EXCEPT ![FreshHandle(heap)] = [st |-> "live", dels |-> 0, ref |-> d]]

\* the foreign references a caller can pass as __valueptr__
ValuePtrs ==
  {[vp |-> "null"], [vp |-> "nondict"], [vp |-> "bad"]}
    \cup {[vp |-> "dict", id |-> d] : d \in DictIds}

InitResult(heap, st, dict, ret, err, esc, crash) ==
  [hp |-> heap, store |-> st, dict |-> dict, ret |-> ret, err |-> err,
   esc |-> esc, crash |-> crash]

\* dict_init from "delete self->dict" on; heap is the heap after that delete
init_install(heap, st, dict, type, class_name, valueptr) ==
  IF valueptr.vp = "bad"
    THEN InitResult(heap, st, dict, RcFail, "std::exception", NoErr, FALSE)
  ELSE IF valueptr.vp = "nondict"
    THEN InitResult(heap, st, dict, RcFail, "type_error", NoErr, FALSE)
  ELSE IF valueptr.vp = "dict"
    THEN InitResult(NewHandle(heap, valueptr.id), st, FreshHandle(heap),
                    RcOk, NoErr, NoErr, FALSE)
  ELSE IF type = ""
    THEN InitResult(NewHandle(heap, FreshDict(st)),
                    [st EXCEPT ![FreshDict(st)] = NewDict("AnyType", "")],
                    FreshHandle(heap), RcOk, NoErr, NoErr, FALSE)
  ELSE IF str_to_type(type) = "UnknownType"
    THEN InitResult(heap, st, dict, RcFail, "TypeError", NoErr, FALSE)
  ELSE IF class_name # "" /\ class_name \notin MetaClasses
    THEN InitResult(heap, st, dict, RcFail, "NameError", NoErr, FALSE)
  ELSE InitResult(NewHandle(heap, FreshDict(st)),
                  [st EXCEPT ![FreshDict(st)] = NewDict(str_to_type(type), class_name)],
                  FreshHandle(heap), RcOk, NoErr, NoErr, FALSE)

\* dict_init: the set of its possible results.  parsed is whether
\* PyArg_ParseTupleAndKeywords accepts the arguments; type and class_name are
\* "" when omitted.  Deleting a dangling self->dict may crash or go on.
dict_init(heap, st, dict, ctx, parsed, type, class_name, valueptr) ==
  IF ~ctx THEN {InitResult(heap, st, dict, RcFail, CtxErr, NoErr, FALSE)}
  ELSE IF ~parsed THEN {InitResult(heap, st, dict, RcFail, "TypeError", NoErr, FALSE)}
  ELSE {init_install(Delete(heap, dict), st, dict, type, class_name, valueptr)}
         \cup (IF DoubleDelete(heap, dict)
                 THEN {InitResult(Delete(heap, dict), st, dict, Unwound, NoErr, NoErr, TRUE)}
                 ELSE {})

\* dict_dealloc: the heap afterwards
dict_dealloc(heap, dict) == Delete(heap, dict)

(***************************************************************************)
(* The iterator.  A cursor is the index of an entry, END (the end()         *)
(* sentinel) or BEFORE (what decrementing begin() may leave).  Entries are  *)
(* nodes: storing never moves them, so an index keeps naming its entry      *)
(* until an entry is removed.                                               *)
(***************************************************************************)
END == 0
BEFORE == -1
MaxOut == NumKeys + 2

NoIter ==
  [st |-> "none", isNew |-> FALSE, iterator |-> END, last |-> END, end |-> END,
   dict |-> 0, out |-> <<>>, stopped |-> FALSE, reset |-> FALSE,
   mutated |-> FALSE, invalid |-> FALSE]

\* DictRef::begin
Begin(d) == IF Len(d.items) = 0 THEN END ELSE 1

\* operator++ of a cursor
Incr(d, c) == IF c >= 1 /\ c < Len(d.items) THEN c + 1 ELSE END

\* the values "--self->dict->end()" can leave: the last entry, or, in an
\* empty dictionary where it is undefined, the sentinel or a stray cursor
DecrEnd(d) == IF Len(d.items) = 0 THEN {END, BEFORE} ELSE {Len(d.items)}

\* dict_iter: the iterators it can produce over dictionary number id
dict_iter(d, id) ==
  {[st |-> "live", isNew |-> TRUE, iterator |-> Begin(d), last |-> l, end |-> END,
    dict |-> id, out |-> <<>>, stopped |-> FALSE, reset |-> FALSE,
    mutated |-> FALSE, invalid |-> FALSE] : l \in DecrEnd(d)}

\* decrementing begin() of an empty dictionary may also end the process
dict_iter_may_crash(d) == Len(d.items) = 0

\* dictiter_iter that also moves the cursor back to the first entry
dictiter_iter_restart(i) ==
  [i EXCEPT !.isNew = TRUE, !.reset = TRUE,
            !.iterator = IF i.last >= 1 THEN 1 ELSE i.end]

\* dictiter_iter
dictiter_iter(i) == [i EXCEPT !.isNew = TRUE, !.reset = TRUE]

NextResult(i, ret, err, crash) == [it |-> i, ret |-> ret, err |-> err, crash |-> crash]

\* the entry a cursor names is there to be read
Readable(d, c) == c >= 1 /\ c <= Len(d.items)

\* dictiter_iternext without the test for the last position
dictiter_iternext_unbounded(i, d, ctx) ==
  IF i.iterator = i.end
    THEN {NextResult([i EXCEPT !.stopped = TRUE], NULL, "StopIteration", FALSE)}
  ELSE LET c == IF i.isNew THEN i.iterator ELSE Incr(d, i.iterator)
           j == [i EXCEPT !.isNew = FALSE, !.iterator = c]
           e == IF ctx THEN NoErr ELSE CtxErr
       IN IF Readable(d, c)
            THEN {NextResult([j EXCEPT !.out = Append(@, from_grt(d.items[c].v))],
                             from_grt(d.items[c].v), e, FALSE)}
            ELSE {NextResult([j EXCEPT !.out = Append(@, v)], v, e, FALSE) :
                    v \in HostStorable \cup {PyNone}}

\* dictiter_iternext testing for exhaustion only once the iterator has advanced
dictiter_iternext_fresh(i, d, ctx) ==
  IF ~i.isNew /\ (i.iterator = i.last \/ i.iterator = i.end)
    THEN {NextResult([i EXCEPT !.stopped = TRUE], NULL, "StopIteration", FALSE)}
  ELSE LET c == IF i.isNew THEN i.iterator ELSE Incr(d, i.iterator)
           j == [i EXCEPT !.isNew = FALSE, !.iterator = c]
           e == IF ctx THEN NoErr ELSE CtxErr
       IN IF Readable(d, c)
            THEN {NextResult([j EXCEPT !.out = Append(@, from_grt(d.items[c].v))],
                             from_grt(d.items[c].v), e, FALSE)}
            ELSE {NextResult([j EXCEPT !.out = Append(@, v)], v, e, FALSE) :
                    v \in HostStorable \cup {PyNone}}

\* dictiter_iternext: the set of its possible results.  With no session
\* ctx is null and "ctx->from_grt" is undefined; so is reading through a
\* cursor that names no entry.
dictiter_iternext(i, d, ctx) ==
  IF i.iterator = i.last \/ i.iterator = i.end
    THEN {NextResult([i EXCEPT !.stopped = TRUE], NULL, "StopIteration", FALSE)}
  ELSE LET c == IF i.isNew THEN i.iterator ELSE Incr(d, i.iterator)
           j == [i EXCEPT !.isNew = FALSE, !.iterator = c]
           e == IF ctx THEN NoErr ELSE CtxErr
       IN IF Readable(d, c)
            THEN {NextResult([j EXCEPT !.out = Append(@, from_grt(d.items[c].v))],
                             from_grt(d.items[c].v), e, FALSE)}
                   \cup (IF ctx THEN {} ELSE {NextResult(j, Unwound, e, TRUE)})
            ELSE {NextResult(j, Unwound, e, TRUE)}
                   \cup {NextResult([j EXCEPT !.out = Append(@, v)], v, e, FALSE) :
                           v \in HostStorable \cup {PyNone}}

(***************************************************************************)
(* The published method table and how the host calls through it.            *)
(***************************************************************************)
\* PyGRTDictMethods: the calling convention of each named method
PyGRTDictMethods ==
  [keys |-> "METH_NOARGS", items |-> "METH_NOARGS", values |-> "METH_NOARGS",
   has_key |-> "METH_NOARGS", update |-> "METH_VARARGS", get |-> "METH_VARARGS",
   setdefault |-> "METH_VARARGS"]

\* the argument tuple a METH_VARARGS handler is handed
ArgTuple(s) == [py |-> "args", elems |-> s]

\* d.has_key(...) through the table; given is whether an argument was passed.
\* A METH_NOARGS method is refused by the host when called with arguments
\* and is handed a null argument otherwise.
call_has_key(d, given, key) ==
  IF PyGRTDictMethods.has_key = "METH_NOARGS"
    THEN IF given THEN Outcome(d, NULL, "TypeError", NoErr) ELSE dict_has_key(d, "")
    ELSE dict_has_key(d, IF given THEN key ELSE "")

\* d.update(other) through the table
call_update(d, other, ctx) ==
  IF PyGRTDictMethods.update = "METH_VARARGS"
    THEN dict_update(d, ArgTuple(<<other>>), ctx)
    ELSE dict_update(d, other, ctx)

(***************************************************************************)
(* Actions.                                                                 *)
(***************************************************************************)
NoCall == Call("none", "", NULL, NULL, NoErr, NoErr, FALSE)

InitFresh ==
  /\ hp = [h \in Handles |-> NoHandle]
  /\ store = [d \in DictIds |-> NoDict]
  /\ self = [a \in Adapters |-> [dict |-> 0, st |-> "new"]]
  /\ it = NoIter
  /\ last = NoCall
  /\ crashed = FALSE

InitArgs(type, class_name, valueptr) ==
  [py |-> "initargs", type |-> type, class |-> class_name, vp |-> valueptr]

\* reference counting of the runtime values: a dictionary lives as long as
\* a live handle refers to it
Reclaim(st, heap) ==
  [d \in DictIds |->
     IF \E h \in Handles : heap[h].st = "live" /\ heap[h].ref = d THEN st[d] ELSE NoDict]

\* the iterator does not own its dictionary: its cursors dangle once the
\* dictionary is gone
IterOrphaned(st) ==
  IF it.st = "live" /\ st[it.dict] = NoDict THEN [it EXCEPT !.invalid = TRUE] ELSE it

\* delete is applied to one pointer at most MaxDeletes times
MayDelete(h) == IF h = 0 THEN TRUE ELSE hp[h].dels < MaxDeletes

\* the adapter after dict_init returned r
AfterInit(a, r) ==
  [dict |-> r.dict,
   st |-> IF r.ret = RcOk THEN "ok"
          ELSE IF self[a].st = "ok" /\ r.dict # 0 /\ r.hp[r.dict].st = "live" THEN "ok"
          ELSE "failed"]

\* Construct with the source handle drawn from VP: tp_init on a new adapter,
\* or __init__ called again on one
ConstructOver(a, VP) ==
  /\ ~crashed
  /\ self[a].st # "dead"
  /\ FreeHandles(hp) # {} /\ FreeDicts(store) # {}
  /\ MayDelete(self[a].dict)
  /\ \E ctx \in BOOLEAN, parsed \in BOOLEAN,
        type \in TypeNames \cup {"", BadTypeName},
        class_name \in MetaClasses \cup {"", BadClassName},
        valueptr \in VP :
       /\ valueptr.vp = "dict" => store[valueptr.id] # NoDict
       /\ (~ctx \/ ~parsed) => (type = "" /\ class_name = "" /\ valueptr.vp = "null")
       /\ valueptr.vp # "null" => (type \in {"", "int"} /\ class_name = "")
       /\ \E r \in dict_init(hp, store, self[a].dict, ctx, parsed, type, class_name, valueptr) :
            /\ hp' = r.hp
            /\ store' = Reclaim(r.store, r.hp)
            /\ it' = IterOrphaned(Reclaim(r.store, r.hp))
            /\ self' = [self EXCEPT ![a] = AfterInit(a, r)]
            /\ crashed' = r.crash
            /\ last' = Call("init", "", InitArgs(type, class_name, valueptr),
                            r.ret, r.err, r.esc, FALSE)

\* Construct with any source handle or none
Construct(a) == ConstructOver(a, ValuePtrs)

\* Destroy: tp_dealloc
Destroy(a) ==
  /\ ~crashed
  /\ self[a].st # "dead"
  /\ MayDelete(self[a].dict)
  /\ hp' = dict_dealloc(hp, self[a].dict)
  /\ self' = [self EXCEPT ![a].st = "dead"]
  /\ crashed' \in (IF DoubleDelete(hp, self[a].dict) THEN BOOLEAN ELSE {FALSE})
  /\ last' = Call("dealloc", "", NULL, NULL, NoErr, NoErr, FALSE)
  /\ store' = Reclaim(store, hp')
  /\ it' = IterOrphaned(store')

\* the adapter may be used: its construction succeeded and it is not destroyed
Usable(a) == ~crashed /\ self[a].st = "ok"

Ref(a) == hp[self[a].dict].ref
D(a) == store[Ref(a)]

IsPrefix(s, t) == Len(s) <= Len(t) /\ \A i \in 1..Len(s) : s[i] = t[i]

\* what a change of dictionary id from old to new means for the iterator
IterAfter(id, old, new) ==
  IF it.st = "live" /\ it.dict = id /\ new # old
    THEN [it EXCEPT !.mutated = TRUE,
                    !.invalid = @ \/ ~IsPrefix(KeySeq(old), KeySeq(new))]
    ELSE it

\* a handler ran on adapter a and ended as outcome o
Apply(a, op, key, val, o) ==
  /\ store' = [store EXCEPT ![Ref(a)] = o.d]
  /\ it' = IterAfter(Ref(a), D(a), o.d)
  /\ last' = Call(op, key, val, o.ret, o.err, o.esc, o.d # D(a))
  /\ UNCHANGED <<hp, self, crashed>>

Length(a) ==
  /\ Usable(a)
  /\ Apply(a, "len", "", NULL, Outcome(D(a), [py |-> "size", n |-> dict_length(D(a))], NoErr, NoErr))

GetItem(a) ==
  /\ Usable(a)
  /\ \E key \in KeyArgs, ctx \in BOOLEAN :
       Apply(a, "getitem", key, NULL, dict_subscript(D(a), key, ctx))

SetItem(a) ==
  /\ Usable(a)
  /\ \E key \in KeyArgs, value \in HostValues \cup {NULL}, ctx \in BOOLEAN :
       Apply(a, "setitem", key, value, dict_ass_subscript(D(a), key, value, ctx))

KeysCall(a) ==
  /\ Usable(a)
  /\ Apply(a, "keys", "", NULL, dict_keys(D(a), FALSE))

ItemsCall(a) ==
  /\ Usable(a)
  /\ \E ctx \in BOOLEAN : Apply(a, "items", "", NULL, dict_items(D(a), FALSE, ctx))

ValuesCall(a) ==
  /\ Usable(a)
  /\ \E ctx \in BOOLEAN : Apply(a, "values", "", NULL, dict_values(D(a), FALSE, ctx))

HasKey(a) ==
  /\ Usable(a)
  /\ \E key \in KeyArgs \cup {""} : Apply(a, "has_key", key, NULL, dict_has_key(D(a), key))

CallHasKey(a) ==
  /\ Usable(a)
  /\ \E given \in BOOLEAN, key \in KeyArgs :
       Apply(a, "call has_key", IF given THEN key ELSE "", NULL,
             call_has_key(D(a), given, key))

\* the dictionaries a caller passes to update: up to NumKeys entries
UpdateValues == {PyInt, PyStr}

RECURSIVE HostItemSeqs(_)
HostItemSeqs(n) ==
  IF n = 0 THEN {<<>>}
  ELSE HostItemSeqs(n - 1) \cup
       {Append(s, [k |-> k, v |-> v]) :
          s \in {t \in HostItemSeqs(n - 1) : Len(t) = n - 1},
          k \in Keys, v \in UpdateValues}

HostDicts ==
  {[py |-> "dict", items |-> s] :
     s \in {t \in HostItemSeqs(NumKeys) :
              \A i, j \in 1..Len(t) : i # j => t[i].k # t[j].k}}

UpdateArgs == HostDicts \cup {NULL, PyNone, PyInt, PyBad}

Update(a) ==
  /\ Usable(a)
  /\ \E arg \in UpdateArgs, ctx \in BOOLEAN :
       Apply(a, "update", "", arg, dict_update(D(a), arg, ctx))

CallUpdate(a) ==
  /\ Usable(a)
  /\ \E arg \in UpdateArgs \ {NULL}, ctx \in BOOLEAN :
       Apply(a, "call update", "", arg, call_update(D(a), arg, ctx))

Get(a) ==
  /\ Usable(a)
  /\ \E key \in KeyArgs, def \in HostValues \cup {NULL}, ctx \in BOOLEAN :
       Apply(a, "get", key, def, dict_get(D(a), key, def, ctx))

SetDefault(a) ==
  /\ Usable(a)
  /\ \E key \in KeyArgs, def \in HostValues \cup {NULL}, ctx \in BOOLEAN :
       Apply(a, "setdefault", key, def, dict_setdefault(D(a), key, def, ctx))

Str(a) ==
  /\ Usable(a)
  /\ Apply(a, "str", "", NULL, dict_printable(D(a)))

\* Iter: tp_iter of the adapter produces the iterator object
Iter(a) ==
  /\ Usable(a)
  /\ \/ /\ \E i \in dict_iter(D(a), Ref(a)) : it' = i
        /\ crashed' = FALSE
     \/ /\ dict_iter_may_crash(D(a))
        /\ it' = it
        /\ crashed' = TRUE
  /\ last' = Call("iter", "", NULL, IF crashed' THEN Unwound ELSE PyNone, NoErr, NoErr, FALSE)
  /\ UNCHANGED <<hp, store, self>>

\* what Next can do once an entry was removed under the iterator: its
\* cursors dangle and any result is possible
DanglingNext(i) ==
  {NextResult(i, Unwound, NoErr, TRUE),
   NextResult([i EXCEPT !.stopped = TRUE], NULL, "StopIteration", FALSE)}
    \cup {NextResult([i EXCEPT !.out = Append(@, v)], v, NoErr, FALSE) :
            v \in HostStorable \cup {PyNone}}

\* Next: tp_iternext of the iterator
IterNext ==
  /\ ~crashed
  /\ it.st = "live"
  /\ Len(it.out) < MaxOut
  /\ \E ctx \in BOOLEAN :
       \E r \in (IF it.invalid THEN DanglingNext(it)
                 ELSE dictiter_iternext(it, store[it.dict], ctx)) :
         /\ it' = r.it
         /\ crashed' = r.crash
         /\ last' = Call("next", "", NULL, r.ret, r.err, NoErr, FALSE)
  /\ UNCHANGED <<hp, store, self>>

\* SelfIterate: tp_iter of the iterator
IterSelf ==
  /\ ~crashed
  /\ it.st = "live"
  /\ it' = dictiter_iter(it)
  /\ last' = Call("iter iter", "", NULL, PyNone, NoErr, NoErr, FALSE)
  /\ UNCHANGED <<hp, store, self, crashed>>

\* the iterator object is released by the host
IterDrop ==
  /\ ~crashed
  /\ it.st = "live"
  /\ it' = NoIter
  /\ last' = Call("iter dealloc", "", NULL, NULL, NoErr, NoErr, FALSE)
  /\ UNCHANGED <<hp, store, self, crashed>>

(***************************************************************************)
(* Specifications.                                                          *)
(***************************************************************************)
\* SpecLife: construction, re-construction and destruction of one adapter
NextLife == Construct(1) \/ Destroy(1)

SpecLife == InitFresh /\ [][NextLife]_vars

\* the states right after the first adapter was constructed with no
\* source handle: a fresh dictionary of each content type, and of each
\* class for the object type
InitDict ==
  \E type \in TypeNames \cup {""}, class_name \in MetaClasses \cup {""} :
    /\ class_name # "" => type = "object"
    /\ \E r \in dict_init([h \in Handles |-> NoHandle], [d \in DictIds |-> NoDict], 0,
                       TRUE, TRUE, type, class_name, [vp |-> "null"]) :
         /\ hp = r.hp
         /\ store = r.store
         /\ self = [a \in Adapters |-> IF a = 1 THEN [dict |-> r.dict, st |-> "ok"]
                                       ELSE [dict |-> 0, st |-> "new"]]
         /\ it = NoIter
         /\ last = NoCall
         /\ crashed = FALSE

\* SpecDict: the mapping operations on one constructed adapter
NextDict ==
  \/ Length(1) \/ GetItem(1) \/ SetItem(1) \/ KeysCall(1) \/ ItemsCall(1)
  \/ ValuesCall(1) \/ HasKey(1) \/ CallHasKey(1) \/ Update(1) \/ CallUpdate(1)
  \/ Get(1) \/ SetDefault(1) \/ Str(1)

SpecDict == InitDict /\ [][NextDict]_vars

\* SpecIter: filling a dictionary and iterating over it
\* the dictionary is filled while no iterator is out
Fill(a) == it.st = "none" /\ SetItem(a)

NextIter == Fill(1) \/ Iter(1) \/ IterNext \/ IterSelf \/ IterDrop

SpecIter == InitDict /\ [][NextIter]_vars

\* SpecAppend: entries are appended while an iterator is out
\* one key more than Fill uses, so that a full dictionary can still grow
MoreKeys == Keys \cup {KeyNames[NumKeys + 1]}

\* a Set of a key that is absent, made while the iterator lives
Grow(a) ==
  /\ Usable(a)
  /\ it.st = "live"
  /\ \E key \in MoreKeys \ KeysOf(D(a)), value \in {PyInt, PyNone} :
       Apply(a, "setitem", key, value, dict_ass_subscript(D(a), key, value, TRUE))

NextAppend == Fill(1) \/ Iter(1) \/ Grow(1) \/ IterNext \/ IterDrop

SpecAppend == InitDict /\ [][NextAppend]_vars

\* SpecShare: two adapters, the second one constructed over the dictionary of
\* the first (source handle), each constructed again, destroyed, written and
\* read in any order
Put(a) ==
  /\ Usable(a)
  /\ \E key \in Keys, value \in {PyInt, NULL} :
       Apply(a, "setitem", key, value, dict_ass_subscript(D(a), key, value, TRUE))

Look(a) ==
  /\ Usable(a)
  /\ \E key \in Keys : Apply(a, "getitem", key, NULL, dict_subscript(D(a), key, TRUE))

\* the second adapter is only ever constructed over a source handle
Attach(a) == ConstructOver(a, ValuePtrs \ {[vp |-> "null"]})

NextShare ==
  \/ Construct(1) \/ Attach(2) \/ Destroy(1) \/ Destroy(2)
  \/ Put(1) \/ Put(2) \/ Look(1) \/ Look(2)

SpecShare == InitFresh /\ [][NextShare]_vars

\* Spec: everything
Next ==
  \/ \E a \in Adapters :
       \/ Construct(a) \/ Destroy(a)
       \/ Length(a) \/ GetItem(a) \/ SetItem(a) \/ KeysCall(a) \/ ItemsCall(a)
       \/ ValuesCall(a) \/ HasKey(a) \/ CallHasKey(a) \/ Update(a) \/ CallUpdate(a)
       \/ Get(a) \/ SetDefault(a) \/ Str(a) \/ Iter(a)
  \/ IterNext \/ IterSelf \/ IterDrop

Spec == InitFresh /\ [][Next]_vars

(***************************************************************************)
(* Claims.                                                                  *)
(***************************************************************************)
Allocated == {h \in Handles : hp[h].st # "unalloc"}

\* C1: over any sequence of Construct calls on one adapter followed by one
\* Destroy, every handle the adapter owned is released exactly once: none is
\* deleted twice, and after Destroy none is left undeleted.
C1_ReleasedExactlyOnce ==
  /\ \A h \in Allocated : hp[h].dels <= 1
  /\ self[1].st = "dead" => \A h \in Allocated : hp[h].dels = 1

ValuesOf(d) == dict_values(d, FALSE, TRUE).ret.elems

\* the iterator was produced over a dictionary that was not changed since and
\* was consumed by Next calls alone
PlainIteration ==
  it.st = "live" /\ ~it.reset /\ ~it.mutated /\ ~it.invalid

\* C2: over an unchanged dictionary with n >= 1 entries the successive Next
\* calls return the values of all n entries, each once, in the order of
\* Values(), and Next fails with StopIteration only after all n.
C2_NextYieldsAllValues ==
  (PlainIteration /\ Len(store[it.dict].items) >= 1) =>
    /\ IsPrefix(it.out, ValuesOf(store[it.dict]))
    /\ it.stopped => it.out = ValuesOf(store[it.dict])

\* C3: an iterator produced over an empty dictionary has last = begin = end,
\* and producing it and its first Next end without reading any entry: the
\* first Next fails with StopIteration and returns no value.
C3_EmptyIteration ==
  /\ (last.op = "iter" /\ Len(D(1).items) = 0) =>
       /\ ~crashed
       /\ it.last = Begin(D(1)) /\ it.last = it.end
  /\ (PlainIteration /\ Len(store[it.dict].items) = 0) =>
       /\ it.out = <<>>
       /\ last.op = "next" => (last.ret = NULL /\ last.err = "StopIteration")

\* the call recorded in c was a Set of a value under a string key with a session
StoreCall(c) ==
  c.op = "setitem" /\ c.key \in Keys /\ c.err # CtxErr /\ c.val # NULL

\* C4: a successful Set(k, v) followed by Get(k) returns a value equal to v;
\* Set(k, None) leaves k present with an empty value, which HasKey, Keys and
\* Count tell from k being absent.
C4_SetThenGet ==
  (StoreCall(last) /\ last.ret = RcOk) =>
    /\ dict_subscript(D(1), last.key, TRUE).ret = last.val
    /\ dict_subscript(D(1), last.key, TRUE).err = NoErr
    /\ last.val = PyNone =>
         /\ DictGet(D(1), last.key) = Invalid
         /\ dict_has_key(D(1), last.key).ret = PyTrue
         /\ dict_has_key(DictRemove(D(1), last.key), last.key).ret = PyFalse
         /\ \E i \in 1..Len(dict_keys(D(1), FALSE).ret.elems) :
              dict_keys(D(1), FALSE).ret.elems[i] = last.key
         /\ dict_length(D(1)) = dict_length(DictRemove(D(1), last.key)) + 1

C4_Witness ==
  StoreCall(last) /\ last.ret = RcOk /\ last.val = PyObj /\ Len(D(1).items) = NumKeys

\* the call recorded in c failed
Failed(c) == c.ret \in {NULL, RcFail, Unwound} \/ c.err # NoErr \/ c.esc # NoErr

C6_ErrorsReported ==
  /\ last.esc = NoErr
  /\ last.err # NoErr => last.ret \in {NULL, RcFail}

\* the value v is of the content kind (and class) of dictionary d
OfContentKind(d, v) ==
  /\ v.type = d.ctype
  /\ (d.ctype = "ObjectType" /\ d.cclass # "") => v.class = d.cclass

Constrained(d) == d.ctype # "AnyType"

\* every value held by a constrained dictionary is empty or of its kind
C7_State ==
  Constrained(D(1)) =>
    \A i \in 1..Len(D(1).items) :
      D(1).items[i].v = Invalid \/ OfContentKind(D(1), D(1).items[i].v)

\* a Set on a constrained dictionary of a value of another kind fails with
\* bad_item and changes nothing; of a value of its kind it succeeds and Get
\* returns the value
C7_Step ==
  (StoreCall(last') /\ last'.val \in HostStorable /\ Constrained(D(1))) =>
    IF OfContentKind(D(1), from_pyobject(last'.val))
      THEN /\ last'.ret = RcOk
           /\ dict_subscript(D(1)', last'.key, TRUE).ret = last'.val
      ELSE /\ last'.ret = RcFail /\ last'.err = "bad_item"
           /\ store' = store

\* C7: on an adapter constructed with a content type, storing a value of
\* another kind fails with BadItem and leaves the dictionary unchanged, storing
\* one of the allowed kind succeeds and Get returns it; every non-empty value
\* of a constrained dictionary is of its content kind.
C7_ContentKindEnforced == []C7_State /\ [][C7_Step]_vars

C7_Witness ==
  /\ StoreCall(last) /\ last.val = PyStr /\ last.err = "bad_item"
  /\ D(1).ctype = "IntegerType" /\ Len(D(1).items) >= 1

\* a successful Set of a value under a key that is present keeps Count
C8_Step ==
  (StoreCall(last') /\ last'.ret = RcOk /\ DictHasKey(D(1), last'.key)) =>
    dict_length(D(1)') = dict_length(D(1))

\* C8: Count() is the number of distinct keys present after any sequence of
\* Set, Remove, SetDefault and Update; a Set on a present key leaves it as it is.
C8_CountIsDistinctKeys ==
  /\ [](dict_length(D(1)) = Cardinality(KeysOf(D(1))))
  /\ [][C8_Step]_vars

C8_Witness ==
  /\ StoreCall(last) /\ last.ret = RcOk /\ ~last.chg
  /\ dict_length(D(1)) = NumKeys

\* the call recorded in c was a Remove under a string key with a session
RemoveCall(c) ==
  c.op = "setitem" /\ c.key \in Keys /\ c.err # CtxErr /\ c.val = NULL

\* C9: Remove of a key that is absent succeeds, raises nothing and leaves the
\* dictionary unchanged.
C9_RemoveMissingIsNoop ==
  [][(RemoveCall(last') /\ ~DictHasKey(D(1), last'.key)) =>
       /\ last'.ret = RcOk /\ last'.err = NoErr /\ last'.esc = NoErr
       /\ store' = store]_vars

C9_Witness ==
  RemoveCall(last) /\ last.ret = RcOk /\ ~last.chg /\ Len(D(1).items) >= 1

\* the call recorded in c was a SetDefault under a string key with a session
SetDefaultCall(c) == c.op = "setdefault" /\ c.key \in Keys /\ c.err # CtxErr

DefaultOf(c) == IF c.val = NULL THEN PyNone ELSE c.val

\* SetDefault on a present key returns the value held and changes nothing
SetDefaultPresent ==
  (SetDefaultCall(last') /\ DictHasKey(D(1), last'.key)) =>
    /\ last'.ret = from_grt(DictGet(D(1), last'.key))
    /\ store' = store

\* SetDefault on an absent key stores the converted default and returns it
SetDefaultStores ==
  /\ D(1)' = DictSet(D(1), last'.key, from_pyobject(DefaultOf(last')))
  /\ last'.ret = from_grt(from_pyobject(DefaultOf(last')))
  /\ last'.err = NoErr /\ last'.esc = NoErr

\* C10 as stated: SetDefault(k, d) on an absent key stores d's converted form
\* and returns a value equal to it; on a present key it returns the value held
\* and changes nothing.
C10_SetDefault_AsStated ==
  [][/\ SetDefaultPresent
     /\ (SetDefaultCall(last') /\ ~DictHasKey(D(1), last'.key)) => SetDefaultStores]_vars

\* the dictionary d takes the host value v: it converts, and the store of the
\* converted form is not rejected
Takes(d, v) ==
  /\ v # PyBad
  /\ Constrained(d) =>
       \/ v \in {PyNone, PyOther}
       \/ OfContentKind(d, from_pyobject(v))

\* C10 amended: SetDefault(k, d) on an absent key, when d converts and the
\* dictionary takes the converted form, stores it and returns a value equal to
\* it; when it does not, nothing is stored; on a present key it returns the
\* value held and changes nothing.
C10_SetDefault ==
  [][/\ SetDefaultPresent
     /\ (SetDefaultCall(last') /\ ~DictHasKey(D(1), last'.key)) =>
          IF Takes(D(1), DefaultOf(last')) THEN SetDefaultStores ELSE store' = store]_vars

C10_Witness ==
  /\ SetDefaultCall(last) /\ last.chg /\ last.val = PyInt /\ last.ret = PyInt
  /\ D(1).ctype = "IntegerType" /\ Len(D(1).items) = NumKeys

\* the call recorded in c was an Update given a host dictionary that succeeded
UpdateDone(c) ==
  c.op = "update" /\ c.val \in HostDicts /\ c.ret = PyNone /\ c.err = NoErr /\ c.esc = NoErr

\* the entries of the host dictionary o
SourceKeys(o) == {o.items[i].k : i \in 1..Len(o.items)}
SourceValue(o, k) == o.items[CHOOSE i \in 1..Len(o.items) : o.items[i].k = k].v

GetItemCall(c) == c.op = "getitem" /\ c.key \in Keys /\ c.err # CtxErr

\* C12: subscript Get of a string key that is absent fails with the lookup
\* error and returns no value; it returns a value, the converted stored one,
\* only when the key is present.
C12_GetMissingFails ==
  [][GetItemCall(last') =>
       /\ store' = store
       /\ IF DictHasKey(D(1), last'.key)
            THEN /\ last'.ret = from_grt(DictGet(D(1), last'.key))
                 /\ last'.err = NoErr
            ELSE /\ last'.ret = NULL
                 /\ last'.err = "bad_item"
       /\ last'.esc = NoErr]_vars

C12_Witness ==
  /\ GetItemCall(last) /\ last.ret = NULL /\ last.err = "bad_item"
  /\ Len(D(1).items) >= 1 /\ ~DictHasKey(D(1), last.key)

\* the call recorded in c was a two-argument Get under a string key with a session
GetCall(c) == c.op = "get" /\ c.key \in Keys /\ c.err # CtxErr

\* C13: Get(key, default) returns the converted stored value when key is
\* present, the default itself when key is absent and a default was passed,
\* and fails with KeyNotFound, returning no value, when key is absent and no
\* default was passed; the dictionary is unchanged in all three cases.
C13_GetDefault ==
  [][GetCall(last') =>
       /\ store' = store
       /\ IF DictHasKey(D(1), last'.key)
            THEN last'.ret = from_grt(DictGet(D(1), last'.key)) /\ last'.err = NoErr
            ELSE IF last'.val # NULL
              THEN last'.ret = last'.val /\ last'.err = NoErr
              ELSE last'.ret = NULL /\ last'.err = "KeyError"]_vars

\* C14: HasKey(key) called through the method table never fails, and for a
\* string key returns true exactly when the key is in the dictionary.
C14_HasKeyThroughTable ==
  (last.op = "call has_key" /\ last.key \in Keys) =>
    /\ last.err = NoErr /\ last.esc = NoErr
    /\ last.ret = (IF DictHasKey(D(1), last.key) THEN PyTrue ELSE PyFalse)

\* adapter a is the one the step acted on as constructor or destructor
Acted(a) == self'[a] # self[a]

\* adapter a was usable and the step left its own fields alone
Bystander(a) == Usable(a) /\ self'[a] = self[a]

\* a Construct over a source handle makes the adapter refer to the source
\* dictionary, whose contents stay as they are
SharedOnConstruct ==
  (last'.op = "init" /\ last'.ret = RcOk /\ last'.val.vp.vp = "dict") =>
    \A a \in Adapters :
      Acted(a) => /\ hp'[self'[a].dict].ref = last'.val.vp.id
                  /\ store'[last'.val.vp.id] = store[last'.val.vp.id]

\* a write through one adapter is what every adapter over the same
\* dictionary reads next
SharedWrite ==
  (last'.op = "setitem" /\ last'.ret = RcOk /\ last'.val # NULL) =>
    \A a, b \in Adapters :
      (Usable(a) /\ Usable(b) /\ Ref(a) = Ref(b) /\ D(a)' # D(a)) =>
        dict_subscript(D(b)', last'.key, TRUE).ret = last'.val

\* another adapter holds a pointer, live or released, to the dictionary of b
Shared(b) ==
  \E a \in Adapters \ {b} : self[a].dict # 0 /\ hp[self[a].dict].ref = Ref(b)

\* constructing or destroying one adapter leaves the dictionary it shares
\* with another adapter as it was and usable through that one
OthersIntact ==
  (last'.op \in {"init", "dealloc"}) =>
    \A b \in Adapters :
      (Bystander(b) /\ Shared(b)) =>
                      /\ ~crashed'
                      /\ hp'[self'[b].dict].st = "live"
                      /\ store'[Ref(b)] = store[Ref(b)]

\* C15: two adapters constructed over one dictionary see each other's writes
\* at once, and destroying or constructing one of them again leaves the
\* dictionary whole and usable through the other.
C15_SharedDictionary ==
  [][SharedOnConstruct /\ SharedWrite /\ OthersIntact]_vars

\* entries were appended after the iterator was made, none was removed, and
\* the iterator was consumed by Next calls alone
GrowingIteration == it.st = "live" /\ it.mutated /\ ~it.reset /\ ~it.invalid

\* the values of the entries the dictionary held when the iterator was made:
\* those up to the last cursor
AtCreation ==
  SubSeq(ValuesOf(store[it.dict]), 1, IF it.last >= 1 THEN it.last ELSE 0)

\* the iterator returns none of the entries appended after it was made
AppendedNotReturned == GrowingIteration => IsPrefix(it.out, AtCreation)

\* C16: when entries are appended after the iterator was made, the iterator
\* returns none of them: it returns the entries up to the one that was last
\* when it was made and then stops with StopIteration.
C16_BoundedToLast ==
  /\ AppendedNotReturned
  /\ (GrowingIteration /\ it.stopped) => it.out = AtCreation

\* SelfIterate sets the 'not yet advanced' flag and leaves the cursor, the
\* last position, the end sentinel and the iterator object as they are
SelfIterateFrame ==
  last'.op = "iter iter" =>
    /\ it'.isNew
    /\ it'.iterator = it.iterator /\ it'.last = it.last /\ it'.end = it.end
    /\ it'.st = it.st /\ it'.dict = it.dict /\ it'.out = it.out
    /\ store' = store
    /\ last'.ret = PyNone /\ last'.err = NoErr

\* the iterator has returned an entry, was then asked for itself, and its
\* cursor is on an entry that is not the last
Repositioned ==
  /\ it.st = "live" /\ ~it.invalid /\ ~it.mutated
  /\ it.isNew /\ it.out # <<>>
  /\ it.iterator # it.last /\ it.iterator # it.end

\* the Next after SelfIterate on a positioned iterator returns the entry at
\* the cursor again and does not advance
NextAfterSelfIterate ==
  (Repositioned /\ last'.op = "next" /\ last'.err = NoErr /\ ~crashed') =>
    /\ it'.iterator = it.iterator
    /\ last'.ret = from_grt(store[it.dict].items[it.iterator].v)
    /\ it'.out = Append(it.out, last'.ret)

\* C17: SelfIterate returns the same iterator and changes only the 'not yet
\* advanced' flag, which it sets; on a fresh iterator it changes nothing, and
\* on a positioned one the next Next returns the entry at the cursor again
\* without advancing.
C17_SelfIterate ==
  [][SelfIterateFrame /\ NextAfterSelfIterate]_vars

\* two entries were returned and the cursor is still on the first entry
C17_Witness ==
  /\ last.op = "next" /\ last.err = NoErr /\ ~crashed
  /\ it.st = "live" /\ it.reset /\ ~it.isNew /\ ~it.invalid
  /\ Len(it.out) = 2 /\ it.iterator = 1 /\ Len(store[it.dict].items) = 2

\* the step was a Construct with a session and no source handle that did not
\* end the process
PlainConstruct ==
  /\ last'.op = "init" /\ last'.err # CtxErr /\ ~crashed'
  /\ last'.val.vp.vp = "null"

\* the step created no dictionary
NothingCreated == \A d \in DictIds : store[d] = NoDict => store'[d] = NoDict

\* the step created an unconstrained dictionary
UnconstrainedCreated ==
  \E d \in DictIds : store[d] = NoDict /\ store'[d] = NewDict("AnyType", "")

\* C18: Construct without a source handle fails with InvalidArgument for a
\* type hint that is none of the five, and with UnknownClass for a class name
\* that does not resolve, whatever the type hint, also an omitted one; in
\* neither case is a dictionary created; an unconstrained dictionary is
\* created only when both are omitted.
C18_ConstructChecksHints ==
  [][PlainConstruct =>
       /\ last'.val.type \notin TypeNames \cup {""} =>
            /\ last'.ret = RcFail /\ last'.err = "TypeError"
            /\ NothingCreated
       /\ (last'.val.type \in TypeNames \cup {""}
             /\ last'.val.class \notin MetaClasses \cup {""}) =>
            /\ last'.ret = RcFail /\ last'.err = "NameError"
            /\ NothingCreated
       /\ UnconstrainedCreated => (last'.val.type = "" /\ last'.val.class = "")]_vars

\* the step left the dictionaries, the handles and the adapters as they were
\* and returned failure
FailedUntouched ==
  /\ last'.ret \in {NULL, RcFail}
  /\ last'.esc = NoErr
  /\ store' = store /\ hp' = hp
  /\ \A a \in Adapters : self'[a].dict = self[a].dict
  /\ ~crashed'

\* C19: with no session active every operation that uses the Context fails
\* with the context-not-available error and changes nothing: dictionary,
\* owned handle, iterator cursor and 'not yet advanced' flag are as before,
\* and the absent Context is not used.
C19_NoSessionChangesNothing ==
  [][last'.err = CtxErr =>
       /\ FailedUntouched
       /\ it'.iterator = it.iterator /\ it'.isNew = it.isNew
       /\ it'.out = it.out]_vars

\* the cursor of a plain iteration is on an entry up to the last one, or, over
\* an empty dictionary, on the end sentinel; no more values were returned
\* than there are entries
CursorBounded ==
  (PlainIteration /\ ~crashed) =>
    /\ Len(it.out) <= dict_length(store[it.dict])
    /\ IF dict_length(store[it.dict]) = 0
         THEN it.iterator = it.end
         ELSE it.iterator >= 1 /\ it.iterator <= it.last

\* a Next of a plain iteration keeps the cursor or moves it one entry on, and
\* fails with StopIteration once as many values as entries were returned
NextForward ==
  (PlainIteration /\ last'.op = "next" /\ ~crashed') =>
    /\ it'.iterator = it.iterator \/ it'.iterator = it.iterator + 1
    /\ Len(it.out) >= dict_length(store[it.dict]) =>
         (last'.ret = NULL /\ last'.err = "StopIteration" /\ it'.iterator = it.iterator)

\* C20: over a dictionary that is not changed after the iterator was made,
\* an iterator consumed by Next calls alone fails with StopIteration after at
\* most Count() + 1 calls; its cursor only moves forward and never passes the
\* last position.
C20_IterationBounded == []CursorBounded /\ [][NextForward]_vars

\* the third Next over two entries failed with StopIteration
C20_Witness ==
  /\ PlainIteration /\ ~crashed /\ it.stopped /\ last.err = "StopIteration"
  /\ Len(it.out) = 2 /\ dict_length(store[it.dict]) = 2 /\ it.iterator = it.last

\* Next has failed with StopIteration on the iterator and its dictionary was
\* not changed since the iterator was made
Exhausted == it.st = "live" /\ it.stopped /\ ~it.mutated /\ ~it.invalid

\* C21: once Next has failed with StopIteration on an iterator whose
\* dictionary is not changed, every later Next fails with StopIteration and
\* returns no value, however SelfIterate calls are interleaved.
C21_ExhaustionAbsorbing ==
  /\ [](Exhausted => (it.iterator = it.last \/ it.iterator = it.end))
  /\ [][(Exhausted /\ last'.op = "next") =>
          /\ last'.ret = NULL /\ last'.err = "StopIteration"
          /\ ~crashed'
          /\ it'.out = it.out /\ it'.iterator = it.iterator]_vars

\* an exhausted iterator over two entries was asked for itself and the Next
\* after that failed with StopIteration
C21_Witness ==
  /\ Exhausted /\ it.isNew /\ it.reset
  /\ last.op = "next" /\ last.err = "StopIteration" /\ last.ret = NULL
  /\ Len(it.out) = 2 /\ dict_length(store[it.dict]) = 2

\* the iterator lives over a dictionary that was not changed since it was made
Unmutated == it.st = "live" /\ ~it.mutated /\ ~it.invalid

\* making the iterator stepped no cursor before the first position
NoCursorBeforeFirst ==
  /\ last.op = "iter" => ~crashed
  /\ Unmutated => it.last # BEFORE

\* a Next that returns a value has read an entry, not the end sentinel
NeverReadsEnd ==
  (Unmutated /\ last'.op = "next" /\ last'.err # "StopIteration") =>
    /\ it'.iterator # it'.end
    /\ Readable(store[it.dict], it'.iterator)

\* C22: over an unchanged dictionary of any size, the empty one included,
\* with Next and SelfIterate called in any order, Next never reads the entry
\* at the end sentinel, and making the iterator never steps a cursor before
\* the first position of the dictionary.
C22_CursorsInRange == []NoCursorBeforeFirst /\ [][NeverReadsEnd]_vars

\* what Keys(), Values() and Items() return on dictionary d
KeysList(d) == dict_keys(d, FALSE).ret.elems
ValuesList(d) == dict_values(d, FALSE, TRUE).ret.elems
ItemsList(d) == dict_items(d, FALSE, TRUE).ret.elems

\* Keys, Values and Items have Count elements each, Keys has no duplicates
\* and Items pairs Keys with Values position by position
ViewsAgree ==
  LET d == D(1)
      n == dict_length(d)
  IN /\ Len(KeysList(d)) = n /\ Len(ValuesList(d)) = n /\ Len(ItemsList(d)) = n
     /\ \A i, j \in 1..n : i # j => KeysList(d)[i] # KeysList(d)[j]
     /\ \A i \in 1..n : ItemsList(d)[i] = PyTuple(KeysList(d)[i], ValuesList(d)[i])

\* the operations that only read
ReadOps ==
  {"len", "keys", "values", "items", "has_key", "call has_key", "get", "getitem", "str"}

\* C23: in every reachable state Keys(), Values() and Items() each have
\* Count() elements, Keys() has no duplicates and Items() is the pairing of
\* Keys() with Values() position by position; Count, Keys, Values, Items,
\* HasKey, Get and ToString leave the dictionary as it is.
C23_ViewsConsistent ==
  /\ []ViewsAgree
  /\ [][last'.op \in ReadOps => store' = store]_vars

\* Items() was called on a full dictionary that holds an empty value
C23_Witness ==
  /\ last.op = "items" /\ last.err = NoErr
  /\ last.ret = PyList(ItemsList(D(1)))
  /\ dict_length(D(1)) = NumKeys
  /\ \E i \in 1..NumKeys : ValuesList(D(1))[i] = PyNone
  /\ \E i \in 1..NumKeys : ValuesList(D(1))[i] = PyInt

====
